---- MODULE Spec2Model ----
(***************************************************************************)
(* ConfigurationResolverService: interactive resolution of ${input:...}    *)
(* and ${command:...} variables of a configuration tree.                   *)
(*                                                                         *)
(* A JavaScript string is a sequence of tokens; a token is one character   *)
(* or an atomic group of characters ("${", "input", "command"), and the    *)
(* string is the concatenation of its tokens.  A JavaScript value is a     *)
(* record [t, v]: t is its type tag and v its content as a sequence.       *)
(***************************************************************************)
EXTENDS Integers, Sequences, FiniteSets, TLC

VARIABLES
    folder,               \* TRUE iff a workspace folder is passed
    workbenchState,       \* workspaceContextService.getWorkbenchState()
    sectionValue,         \* configurationService.getValue(section, ...)
    configuration,        \* the config tree passed to the call
    variableToCommandMap, \* aliases for commands, or Undefined
    inputs,               \* local `inputs` of resolveWithInputAndCommands
    variables,            \* local `variables`: the scan list
    pos,                  \* position of the for-of loop in `variables`
    variableValues,       \* local `variableValues`
    pc,                   \* where the call is
    pending,              \* capability invocations issued and not completed
    issued,               \* history: every capability invocation, in order
    calls,                \* history: every dispatch of the loop, in order
    completed,            \* history: every completed invocation, in order
    ret,                  \* value the call returned
    fault,                \* fault the call ended with, or "none"
    entry,                \* the public method called, or "none"
    argConfig,            \* the config passed to the public method
    replaceConfig,        \* `config` of resolveWithInteractionReplace
    allVariableMapping,   \* `allVariableMapping` of resolveWithInteraction
    outerPc,              \* where the public method is
    interactionRet,       \* value resolveWithInteraction resolved with
    replaceRet,           \* value resolveWithInteractionReplace resolved with
    merges,               \* history: every updateMapping applied
    substitutions         \* history: every resolveAny given a mapping

\* the state of the public methods around resolveWithInputAndCommands
outerVars == <<entry, argConfig, replaceConfig, allVariableMapping, outerPc,
               interactionRet, replaceRet, merges, substitutions>>

vars == <<folder, workbenchState, sectionValue, configuration,
          variableToCommandMap, inputs, variables, pos, variableValues, pc,
          pending, issued, calls, completed, ret, fault, outerVars>>

-----------------------------------------------------------------------------
(* Bounds of the model *)

\* most parts a generated string is concatenated from
MaxParts == 2

\* most input definitions in a declared "inputs" table
MaxDefs == 1

\* most options of a pickString definition
MaxOptions == 3

-----------------------------------------------------------------------------
(* JavaScript values *)

Str(s) == [t |-> "string", v |-> s]

Undefined == [t |-> "undefined", v |-> <<>>]

Null == [t |-> "null", v |-> <<>>]

Num(n) == [t |-> "number", v |-> <<n>>]

Arr(s) == [t |-> "array", v |-> s]

Obj(s) == [t |-> "object", v |-> s]

\* JavaScript truthiness, as `!x` and `if (x)` test it
Truthy(x) ==
    /\ x.t \notin {"undefined", "null"}
    /\ ~(x.t = "string" /\ x.v = <<>>)
    /\ ~(x.t = "number" /\ x.v = <<0>>)

isString(x) == x.t = "string"

isUndefinedOrNull(x) == x.t \in {"undefined", "null"}

isArray(x) == x.t = "array"

isStringArray(x) == isArray(x) /\ \A k \in 1..Len(x.v) : isString(x.v[k])

-----------------------------------------------------------------------------
(* INPUT_OR_COMMAND_VARIABLES_PATTERN = /\${((input|command):(.*?))}/g *)

\* The pattern matches s[from..to]: "${", a kind, ":", then lazily any
\* tokens but a line terminator up to the first "}".
PatternMatches(s, from, to) ==
    /\ from + 3 <= to
    /\ to <= Len(s)
    /\ s[from] = "${"
    /\ s[from + 1] \in {"input", "command"}
    /\ s[from + 2] = ":"
    /\ s[to] = "}"
    /\ \A k \in (from + 3)..(to - 1) : s[k] \notin {"}", "NL"}

\* RegExp.prototype.exec from lastIndex (1-based here): the leftmost match
\* at or after lastIndex, or index 0 for null.
PatternExec(s, lastIndex) ==
    LET starts == {f \in lastIndex..Len(s) :
                      \E e \in f..Len(s) : PatternMatches(s, f, e)}
    IN  IF starts = {}
        THEN [index |-> 0, last |-> 0]
        ELSE LET f == CHOOSE x \in starts : \A y \in starts : x <= y
                 e == CHOOSE x \in f..Len(s) : PatternMatches(s, f, x)
             IN  [index |-> f, last |-> e]

\* indexOf(command) < 0
NotIn(variables_, command) ==
    \A k \in 1..Len(variables_) : variables_[k] # command

\* PushUnique without the indexOf guard
PushAlways(variables_, command) == Append(variables_, command)

\* the push guarded by indexOf
PushUnique(variables_, command) ==
    IF NotIn(variables_, command)
    THEN Append(variables_, command)
    ELSE variables_

\* the while loop of findVariables over one string
RECURSIVE ExecLoop(_, _, _)
ExecLoop(s, lastIndex, variables_) ==
    LET matches == PatternExec(s, lastIndex)
    IN  IF matches.index = 0
        THEN variables_
        ELSE ExecLoop(s, matches.last + 1,
                 PushUnique(variables_,
                     SubSeq(s, matches.index + 1, matches.last - 1)))

\* Object.keys(object) mapped to the values: what the last branch visits
Values(object) ==
    IF object.t = "object"
    THEN [k \in 1..Len(object.v) |-> object.v[k].value]
    ELSE <<>>

RECURSIVE findVariables(_, _)
RECURSIVE findVariablesEach(_, _, _)
findVariables(object, variables_) ==
    IF object.t = "string"
    THEN ExecLoop(object.v, 1, variables_)
    ELSE IF isArray(object)
    THEN findVariablesEach(object.v, 1, variables_)
    ELSE IF Truthy(object)
    THEN findVariablesEach(Values(object), 1, variables_)
    ELSE variables_

\* forEach(value => this.findVariables(value, variables))
findVariablesEach(values, k, variables_) ==
    IF k > Len(values)
    THEN variables_
    ELSE findVariablesEach(values, k + 1, findVariables(values[k], variables_))

-----------------------------------------------------------------------------
(* showUserInput *)

NoFault == [name |-> "none", arg |-> ""]

Fault(name, arg) == [name |-> name, arg |-> arg]

\* inputInfos.filter(item => item.id === variable).pop(): the matching
\* definitions, of which the last is taken
Matching(variable, inputInfos) ==
    SelectSeq(inputInfos.v, LAMBDA item : item.id = variable)

\* an object literal with the given keys, in order
Prop(key, value) == [key |-> key, value |-> value]

\* the value of property key of object o, Undefined when it has none
Get(o, key) ==
    LET at == {k \in 1..Len(o.v) : o.v[k].key = key}
    IN  IF at = {} THEN Undefined ELSE o.v[CHOOSE k \in at : TRUE].value

\* inputOptions of the promptString case
InputOptions(info) ==
    IF Truthy(info.default)
    THEN Obj(<<Prop("prompt", info.description), Prop("value", info.default)>>)
    ELSE Obj(<<Prop("prompt", info.description)>>)

\* AddPick that annotates the default and leaves it in place
AddPickInPlace(picks, pickOption, info) ==
    IF pickOption = info.default
    THEN Append(picks, Obj(<<Prop("label", pickOption),
                             Prop("description", Str(<<"Default">>))>>))
    ELSE Append(picks, Obj(<<Prop("label", pickOption)>>))

\* one step of info.options.forEach: unshift the default, push the others
AddPick(picks, pickOption, info) ==
    IF pickOption = info.default
    THEN <<Obj(<<Prop("label", pickOption),
                 Prop("description", Str(<<"Default">>))>>)>> \o picks
    ELSE Append(picks, Obj(<<Prop("label", pickOption)>>))

RECURSIVE Picks(_, _, _)
Picks(info, k, picks) ==
    IF k > Len(info.options.v)
    THEN picks
    ELSE Picks(info, k + 1, AddPick(picks, info.options.v[k], info))

Throw(name, arg) == [kind |-> "throw", fault |-> Fault(name, arg),
                     cap |-> "", a |-> Undefined, b |-> Undefined]

Invoke(cap, a, b) == [kind |-> "invoke", fault |-> NoFault,
                      cap |-> cap, a |-> a, b |-> b]

\* showUserInputOf without the description check of promptString
showUserInputOfUnchecked(info) ==
    IF info.type = "promptString"
    THEN Invoke("input", InputOptions(info), Undefined)
    ELSE IF info.type = "pickString"
    THEN IF ~isString(info.description)
         THEN Throw("MissingAttribute", "description")
         ELSE IF ~isStringArray(info.options)
         THEN Throw("MissingAttribute", "options")
         ELSE Invoke("pick", Arr(Picks(info, 1, <<>>)),
                     Obj(<<Prop("placeHolder", info.description)>>))
    ELSE IF info.type = "command"
    THEN IF ~isString(info.command)
         THEN Throw("MissingAttribute", "command")
         ELSE Invoke("executeCommand", info.command, info.args)
    ELSE Throw("UnknownInputType", "")

\* the switch on info.type, up to the capability call of each case
showUserInputOf(info) ==
    IF info.type = "promptString"
    THEN IF ~isString(info.description)
         THEN Throw("MissingAttribute", "description")
         ELSE Invoke("input", InputOptions(info), Undefined)
    ELSE IF info.type = "pickString"
    THEN IF ~isString(info.description)
         THEN Throw("MissingAttribute", "description")
         ELSE IF ~isStringArray(info.options)
         THEN Throw("MissingAttribute", "options")
         ELSE Invoke("pick", Arr(Picks(info, 1, <<>>)),
                     Obj(<<Prop("placeHolder", info.description)>>))
    ELSE IF info.type = "command"
    THEN IF ~isString(info.command)
         THEN Throw("MissingAttribute", "command")
         ELSE Invoke("executeCommand", info.command, info.args)
    ELSE Throw("UnknownInputType", "")

\* showUserInput up to the promise it returns: a fault, or the capability
\* invocation whose completion the promise waits for
showUserInput(variable, inputInfos) ==
    IF ~isArray(inputInfos)
    THEN Throw("TypeError", "filter")
    ELSE LET found == Matching(variable, inputInfos)
         IN  IF found # <<>>
             THEN showUserInputOf(found[Len(found)])
             ELSE Throw("UndefinedVariable", "")

\* value a resolution step settles with: a result or a fault
Settled(result) == [fault |-> NoFault, result |-> result]

Rejected(name) == [fault |-> Fault(name, ""), result |-> Undefined]

\* .then(resolvedInput => resolvedInput ? resolvedInput : undefined)
ThenInput(resolvedInput) ==
    Settled(IF Truthy(resolvedInput) THEN resolvedInput ELSE Undefined)

\* .then(resolvedInput => resolvedInput ? resolvedInput.label : undefined)
ThenPick(resolvedInput) ==
    Settled(IF Truthy(resolvedInput)
            THEN Get(resolvedInput, "label")
            ELSE Undefined)

\* ThenInputCommand without the type check
ThenInputCommandAny(result) == Settled(result)

\* the .then of the command case of showUserInput
ThenInputCommand(result) ==
    IF isString(result) \/ isUndefinedOrNull(result)
    THEN Settled(result)
    ELSE Rejected("InvalidResultType")

\* the check after the await of the 'command' case of the loop
ThenCommand(result) ==
    IF ~isString(result) /\ ~isUndefinedOrNull(result)
    THEN Rejected("InvalidResultType")
    ELSE Settled(result)

-----------------------------------------------------------------------------
(* resolveWithInputAndCommands *)

\* variable.split(':'): the pieces between the separators
RECURSIVE SplitAll(_, _, _, _)
SplitAll(s, k, piece, pieces) ==
    IF k > Len(s)
    THEN Append(pieces, piece)
    ELSE IF s[k] = ":"
    THEN SplitAll(s, k + 1, <<>>, Append(pieces, piece))
    ELSE SplitAll(s, k + 1, Append(piece, s[k]), pieces)

\* variable.split(':', 2): at most the first two pieces
Split2(variable) ==
    LET pieces == SplitAll(variable, 1, <<>>, <<>>)
    IN  IF Len(pieces) > 2 THEN SubSeq(pieces, 1, 2) ELSE pieces

\* const [type, name] = ...: a missing element is undefined
TypeOf(variable) == Split2(variable)[1]

NameOf(variable) ==
    IF Len(Split2(variable)) >= 2 THEN Split2(variable)[2] ELSE <<>>

\* lines 145-151: the declared inputs of the folder's section
GetInputs ==
    IF folder /\ workbenchState # "EMPTY"
    THEN IF Truthy(sectionValue)
         THEN Get(sectionValue, "inputs")
         ELSE Undefined
    ELSE Undefined

\* CommandId ignoring the alias map
CommandIdNoAlias(name) == Str(name)

\* (variableToCommandMap ? variableToCommandMap[name] : undefined) || name
CommandId(name) ==
    LET alias == IF Truthy(variableToCommandMap)
                 THEN Get(variableToCommandMap, name)
                 ELSE Undefined
    IN  IF Truthy(alias) THEN alias ELSE Str(name)

NotReturned == [t |-> "none", m |-> <<>>]

RetUndefined == [t |-> "undefined", m |-> <<>>]

RetMapping(values) == [t |-> "mapping", m |-> values]

\* Put that writes the result under every key collected so far as well
PutAll(values, variable, result) ==
    [k \in (DOMAIN values) \cup {variable} |-> result.v]

\* variableValues[variable] = result
Put(values, variable, result) ==
    [k \in (DOMAIN values) \cup {variable} |->
        IF k = variable THEN result.v ELSE values[k]]

\* Current walking the list from its end
CurrentReversed(variables_, p) == variables_[Len(variables_) + 1 - p]

\* the element the for-of loop visits at step p
Current(variables_, p) == variables_[p]

\* AfterResult going on to the next variable after a non-string
AfterResultSkip(variable, result, values, p) ==
    IF isString(result)
    THEN [pc |-> "loop", pos |-> p + 1,
          values |-> Put(values, variable, result), ret |-> NotReturned]
    ELSE [pc |-> "loop", pos |-> p + 1,
          values |-> values, ret |-> NotReturned]

\* AfterResult returning what was collected so far after a non-string
AfterResultPartial(variable, result, values, p) ==
    IF isString(result)
    THEN [pc |-> "loop", pos |-> p + 1,
          values |-> Put(values, variable, result), ret |-> NotReturned]
    ELSE [pc |-> "returned", pos |-> p,
          values |-> values, ret |-> RetMapping(values)]

\* AfterResult visiting the same variable again after a string
AfterResultRepeat(variable, result, values, p) ==
    IF isString(result)
    THEN [pc |-> "loop", pos |-> p,
          values |-> Put(values, variable, result), ret |-> NotReturned]
    ELSE [pc |-> "returned", pos |-> p,
          values |-> values, ret |-> RetUndefined]

\* lines 181-185: store a string and go on, or return undefined
AfterResult(variable, result, values, p) ==
    IF isString(result)
    THEN [pc |-> "loop", pos |-> p + 1,
          values |-> Put(values, variable, result), ret |-> NotReturned]
    ELSE [pc |-> "returned", pos |-> p,
          values |-> values, ret |-> RetUndefined]

\* an invocation of a capability, issued for a variable of the scan list
Invocation(variable, via, step) ==
    [variable |-> variable, via |-> via, cap |-> step.cap,
     a |-> step.a, b |-> step.b]

\* Await that lets the loop go on while the invocation is outstanding
NoAwait(inv) ==
    /\ pending' = pending \cup {inv}
    /\ issued' = Append(issued, inv)
    /\ pc' = "loop"
    /\ pos' = pos + 1

\* `await`: the call is suspended until the invocation completes
Await(inv) ==
    /\ pending' = pending \cup {inv}
    /\ issued' = Append(issued, inv)
    /\ pc' = "await"
    /\ UNCHANGED pos

\* EarlyReturn for a call that would scan every configuration
EarlyReturnNever(configuration_) == FALSE

\* line 140: if (!configuration) return Promise.resolve(undefined)
EarlyReturn(configuration_) == ~Truthy(configuration_)

\* entry of resolveWithInputAndCommands, up to the loop
Call ==
    /\ pc = "start"
    /\ IF EarlyReturn(configuration)
       THEN /\ pc' = "returned"
            /\ ret' = RetUndefined
            /\ UNCHANGED <<inputs, variables, pos, variableValues>>
       ELSE /\ inputs' = GetInputs
            /\ variables' = findVariables(configuration, <<>>)
            /\ variableValues' = <<>>
            /\ pos' = 1
            /\ pc' = "loop"
            /\ UNCHANGED ret
    /\ UNCHANGED <<folder, workbenchState, sectionValue, configuration,
                   variableToCommandMap, pending, issued, calls, completed,
                   fault>>
    /\ UNCHANGED outerVars

\* the loop is over: return variableValues
LoopExit ==
    /\ pc = "loop"
    /\ pos > Len(variables)
    /\ ret' = RetMapping(variableValues)
    /\ pc' = "returned"
    /\ UNCHANGED <<folder, workbenchState, sectionValue, configuration,
                   variableToCommandMap, inputs, variables, pos,
                   variableValues, pending, issued, calls, completed, fault>>
    /\ UNCHANGED outerVars

\* case 'input': showUserInput(name, inputs), awaited
CaseInput ==
    /\ pc = "loop"
    /\ pos <= Len(variables)
    /\ LET variable == Current(variables, pos)
           step == showUserInput(NameOf(variable), inputs)
       IN  /\ TypeOf(variable) = <<"input">>
           /\ calls' = Append(calls, [variable |-> variable, type |-> "input",
                                      name |-> NameOf(variable)])
           /\ IF step.kind = "throw"
              THEN /\ pc' = "thrown"
                   /\ fault' = step.fault
                   /\ UNCHANGED <<pending, issued, pos>>
              ELSE /\ Await(Invocation(variable, "input", step))
                   /\ UNCHANGED fault
    /\ UNCHANGED <<folder, workbenchState, sectionValue, configuration,
                   variableToCommandMap, inputs, variables, variableValues,
                   completed, ret>>
    /\ UNCHANGED outerVars

\* case 'command': executeCommand(commandId, configuration), awaited
CaseCommand ==
    /\ pc = "loop"
    /\ pos <= Len(variables)
    /\ LET variable == Current(variables, pos)
           step == Invoke("executeCommand", CommandId(NameOf(variable)),
                          configuration)
       IN  /\ TypeOf(variable) = <<"command">>
           /\ calls' = Append(calls, [variable |-> variable,
                                      type |-> "command",
                                      name |-> NameOf(variable)])
           /\ Await(Invocation(variable, "command", step))
    /\ UNCHANGED <<folder, workbenchState, sectionValue, configuration,
                   variableToCommandMap, inputs, variables, variableValues,
                   completed, ret, fault>>
    /\ UNCHANGED outerVars

\* Resume that goes on to the next variable when the step settled with a
\* fault
ResumeIgnoreFault(inv, raw, settled) ==
    /\ pending' = pending \ {inv}
    /\ completed' = Append(completed,
           [variable |-> inv.variable, via |-> inv.via, cap |-> inv.cap,
            raw |-> raw, result |-> settled.result, fault |-> settled.fault])
    /\ IF settled.fault # NoFault
       THEN /\ pc' = "loop"
            /\ pos' = pos + 1
            /\ UNCHANGED <<variableValues, ret, fault>>
       ELSE LET after == AfterResult(inv.variable, settled.result,
                                     variableValues, pos)
            IN  /\ pc' = after.pc
                /\ pos' = after.pos
                /\ variableValues' = after.values
                /\ ret' = after.ret
                /\ UNCHANGED fault
    /\ UNCHANGED <<folder, workbenchState, sectionValue, configuration,
                   variableToCommandMap, inputs, variables, issued, calls>>
    /\ UNCHANGED outerVars

\* the call resumes after invocation inv completed with raw and the step
\* settled with `settled`
Resume(inv, raw, settled) ==
    /\ pending' = pending \ {inv}
    /\ completed' = Append(completed,
           [variable |-> inv.variable, via |-> inv.via, cap |-> inv.cap,
            raw |-> raw, result |-> settled.result, fault |-> settled.fault])
    /\ IF settled.fault # NoFault
       THEN /\ pc' = "thrown"
            /\ fault' = settled.fault
            /\ UNCHANGED <<pos, variableValues, ret>>
       ELSE LET after == AfterResult(inv.variable, settled.result,
                                     variableValues, pos)
            IN  /\ pc' = after.pc
                /\ pos' = after.pos
                /\ variableValues' = after.values
                /\ ret' = after.ret
                /\ UNCHANGED fault
    /\ UNCHANGED <<folder, workbenchState, sectionValue, configuration,
                   variableToCommandMap, inputs, variables, issued, calls>>
    /\ UNCHANGED outerVars

\* what the user may type into the input box
Answers == {<<>>, <<"x">>, <<"y">>}

\* what a command may return
CommandResults ==
    {Undefined, Null, Str(<<>>), Str(<<"x">>), Str(<<"y">>), Num(7)}

\* quickInputService.input completes: the text accepted, or undefined
InputCompletes ==
    /\ pc = "await"
    /\ \E inv \in pending :
        /\ inv.cap = "input"
        /\ \E raw \in {Undefined} \cup {Str(s) : s \in Answers} :
            Resume(inv, raw, ThenInput(raw))

\* quickInputService.pick completes: the item picked, or undefined
PickCompletes ==
    /\ pc = "await"
    /\ \E inv \in pending :
        /\ inv.cap = "pick"
        /\ \E raw \in {Undefined} \cup {inv.a.v[k] : k \in 1..Len(inv.a.v)} :
            Resume(inv, raw, ThenPick(raw))

\* commandService.executeCommand completes with a value
CommandCompletes ==
    /\ pc = "await"
    /\ \E inv \in pending :
        /\ inv.cap = "executeCommand"
        /\ \E raw \in CommandResults :
            Resume(inv, raw, IF inv.via = "input"
                             THEN ThenInputCommand(raw)
                             ELSE ThenCommand(raw))

\* the error a failed command is rejected with
Failure == [t |-> "error", v |-> <<>>]

\* commandService.executeCommand fails: the error propagates
CommandFails ==
    /\ pc = "await"
    /\ \E inv \in pending :
        /\ inv.cap = "executeCommand"
        /\ Resume(inv, Failure, Rejected("ExecutionError"))

-----------------------------------------------------------------------------
(* updateMapping *)

\* forEach(newMapping, entry => fullMapping.set(entry.key, entry.value))
SetAll(entries, fullMapping) ==
    [k \in (DOMAIN fullMapping) \cup (DOMAIN entries) |->
        IF k \in DOMAIN entries THEN entries[k] ELSE fullMapping[k]]

\* updateMapping that treats an undefined newMapping as an empty one
updateMappingNoGuard(newMapping, fullMapping) ==
    [ok |-> TRUE, full |-> SetAll(newMapping.m, fullMapping)]

\* updateMapping that keeps the entries fullMapping already has
updateMappingKeepOld(newMapping, fullMapping) ==
    IF newMapping.t = "undefined"
    THEN [ok |-> FALSE, full |-> fullMapping]
    ELSE [ok |-> TRUE, full |-> SetAll(fullMapping, newMapping.m)]

\* updateMapping: the value returned and fullMapping afterwards
updateMapping(newMapping, fullMapping) ==
    IF newMapping.t = "undefined"
    THEN [ok |-> FALSE, full |-> fullMapping]
    ELSE [ok |-> TRUE, full |-> SetAll(newMapping.m, fullMapping)]

\* one application of updateMapping, as the history keeps it
Merged(newMapping, fullMapping) ==
    [newMapping |-> newMapping, before |-> fullMapping,
     after |-> updateMapping(newMapping, fullMapping).full,
     ok |-> updateMapping(newMapping, fullMapping).ok]

-----------------------------------------------------------------------------
(* resolveWithInteraction and resolveWithInteractionReplace.  resolveAny    *)
(* and resolveAnyMap are inherited from AbstractVariableResolverService:   *)
(* they replace the variables they know in every string of a tree.         *)

\* the string s from position k on, each ${key} the mapping knows replaced
\* by the mapping's text for it
RECURSIVE SubstituteString(_, _, _, _)
SubstituteString(s, k, mapping, out) ==
    IF k > Len(s)
    THEN out
    ELSE LET ends == {e \in (k + 1)..Len(s) : s[e] = "}"}
             e == IF ends = {} THEN 0
                  ELSE CHOOSE x \in ends : \A y \in ends : x <= y
         IN  IF s[k] = "${" /\ e # 0 /\ SubSeq(s, k + 1, e - 1) \in DOMAIN mapping
             THEN SubstituteString(s, e + 1, mapping,
                      out \o mapping[SubSeq(s, k + 1, e - 1)])
             ELSE SubstituteString(s, k + 1, mapping, Append(out, s[k]))

\* the tree with every string of it substituted
RECURSIVE Substitute(_, _)
Substitute(tree, mapping) ==
    IF tree.t = "string"
    THEN Str(SubstituteString(tree.v, 1, mapping, <<>>))
    ELSE IF tree.t = "array"
    THEN Arr([k \in 1..Len(tree.v) |-> Substitute(tree.v[k], mapping)])
    ELSE IF tree.t = "object"
    THEN Obj([k \in 1..Len(tree.v) |->
                 Prop(tree.v[k].key, Substitute(tree.v[k].value, mapping))])
    ELSE tree

\* the variables resolved without interaction: env:A is "v", and env:B is
\* the text ${env:A}
Environment ==
    (<<"env", ":", "A">> :> <<"v">>)
    @@ (<<"env", ":", "B">> :> <<"${", "env", ":", "A", "}">>)

\* ${key} occurs in a string of the tree
Occurs(tree, key) == Substitute(tree, key :> <<>>) # tree

\* resolveAnyMap(folder, config): the tree with the known variables
\* replaced, and the variables replaced with their values
resolveAnyMap(config) ==
    [newConfig |-> Substitute(config, Environment),
     resolvedVariables |->
        [key \in {k \in DOMAIN Environment : Occurs(config, k)} |->
            Environment[key]]]

\* resolveAny(folder, config)
resolveAny(config) == resolveAnyMap(config).newConfig

\* resolveAny(folder, config, commandValueMapping): the final substitution
ApplyMapping(config, mapping) == Substitute(config, mapping)

\* the callback of resolveWithInteractionReplace substituting whatever was
\* collected, whether or not a mapping was returned
ReplaceResultAlways(mapping, config) ==
    [value |-> ApplyMapping(config, SetAll(variableValues, allVariableMapping)),
     applied |-> <<[config |-> config,
                    mapping |-> SetAll(variableValues, allVariableMapping)]>>]

\* lines 90-99: the callback of resolveWithInteractionReplace: the value it
\* returns and the substitution it applies
ReplaceResult(mapping, config) ==
    IF mapping.t = "undefined"
    THEN [value |-> Null, applied |-> <<>>]
    ELSE IF Cardinality(DOMAIN mapping.m) > 0
    THEN [value |-> ApplyMapping(config, mapping.m),
          applied |-> <<[config |-> config, mapping |-> mapping.m]>>]
    ELSE [value |-> config, applied |-> <<>>]

\* resolveWithInteraction up to its call of resolveWithInputAndCommands
InteractionEnter ==
    /\ outerPc = "idle"
    /\ entry = "interaction"
    /\ configuration' = resolveAnyMap(argConfig).newConfig
    /\ allVariableMapping' = resolveAnyMap(argConfig).resolvedVariables
    /\ pc' = "start"
    /\ outerPc' = "interaction"
    /\ UNCHANGED <<folder, workbenchState, sectionValue,
                   variableToCommandMap, inputs, variables, pos,
                   variableValues, pending, issued, calls, completed, ret,
                   fault, entry, argConfig, replaceConfig, interactionRet,
                   replaceRet, merges, substitutions>>

\* resolveWithInteractionReplace up to the call of
\* resolveWithInputAndCommands inside resolveWithInteraction
ReplaceEnter ==
    /\ outerPc = "idle"
    /\ entry = "replace"
    /\ replaceConfig' = resolveAny(argConfig)
    /\ configuration' = resolveAnyMap(replaceConfig').newConfig
    /\ allVariableMapping' = resolveAnyMap(replaceConfig').resolvedVariables
    /\ pc' = "start"
    /\ outerPc' = "interaction"
    /\ UNCHANGED <<folder, workbenchState, sectionValue,
                   variableToCommandMap, inputs, variables, pos,
                   variableValues, pending, issued, calls, completed, ret,
                   fault, entry, argConfig, interactionRet, replaceRet,
                   merges, substitutions>>

\* lines 109-114: the callback of resolveWithInteraction, run once
\* resolveWithInputAndCommands has returned
InteractionThen ==
    /\ outerPc = "interaction"
    /\ pc = "returned"
    /\ merges' = Append(merges, Merged(ret, allVariableMapping))
    /\ allVariableMapping' = updateMapping(ret, allVariableMapping).full
    /\ interactionRet' = IF updateMapping(ret, allVariableMapping).ok
                         THEN RetMapping(allVariableMapping')
                         ELSE RetUndefined
    /\ outerPc' = IF entry = "replace" THEN "then" ELSE "done"
    /\ UNCHANGED <<folder, workbenchState, sectionValue, configuration,
                   variableToCommandMap, inputs, variables, pos,
                   variableValues, pc, pending, issued, calls, completed,
                   ret, fault, entry, argConfig, replaceConfig, replaceRet,
                   substitutions>>

\* the callback of resolveWithInteractionReplace, run once
\* resolveWithInteraction has resolved
ReplaceThen ==
    /\ outerPc = "then"
    /\ replaceRet' = ReplaceResult(interactionRet, replaceConfig).value
    /\ substitutions' =
          substitutions \o ReplaceResult(interactionRet, replaceConfig).applied
    /\ outerPc' = "done"
    /\ UNCHANGED <<folder, workbenchState, sectionValue, configuration,
                   variableToCommandMap, inputs, variables, pos,
                   variableValues, pc, pending, issued, calls, completed,
                   ret, fault, entry, argConfig, replaceConfig,
                   allVariableMapping, interactionRet, merges>>

\* no public method is running: resolveWithInputAndCommands alone
OuterIdle ==
    /\ entry = "none"
    /\ argConfig = Undefined
    /\ replaceConfig = Undefined
    /\ allVariableMapping = <<>>
    /\ outerPc = "idle"
    /\ interactionRet = NotReturned
    /\ replaceRet = Undefined
    /\ merges = <<>>
    /\ substitutions = <<>>

-----------------------------------------------------------------------------
(* The inputs of one call *)

\* the text ${kind:name} as tokens
Ref(kind, name) == <<"${", kind, ":">> \o name \o <<"}">>

\* the references strings are built from; one has a colon in its name
RefParts ==
    {Ref("input", <<"a">>), Ref("input", <<"b">>), Ref("command", <<"a">>),
     Ref("input", <<"a", ":", "b">>)}

Parts == RefParts \cup {<<"x">>}

\* the strings concatenated from at most n of the given parts
RECURSIVE StringsOf(_, _)
StringsOf(parts, n) ==
    IF n = 0
    THEN {<<>>}
    ELSE LET shorter == StringsOf(parts, n - 1)
         IN  shorter \cup {p \o s : p \in parts, s \in shorter}

\* config trees: strings, a mapping holding a string and a sequence, and
\* values without any string
Configs ==
    {Str(s) : s \in StringsOf(Parts, MaxParts)}
    \cup {Obj(<<Prop("k1", Str(p)), Prop("k2", Arr(<<Str(q), Str(r)>>))>>) :
             p \in RefParts, q \in RefParts, r \in RefParts}
    \cup {Null, Undefined, Num(0), Num(7), Arr(<<>>), Obj(<<>>)}

\* a ConfiguredInput
Def(id, type, description, default, options, command, args) ==
    [id |-> id, type |-> type, description |-> description,
     default |-> default, options |-> options, command |-> command,
     args |-> args]

DefPool ==
    {Def(<<"a">>, "promptString", Str(<<"d">>), Undefined, Undefined,
         Undefined, Undefined),
     Def(<<"a">>, "pickString", Str(<<"d">>), Str(<<"y">>),
         Arr(<<Str(<<"x">>), Str(<<"y">>)>>), Undefined, Undefined),
     Def(<<"a">>, "command", Undefined, Undefined, Undefined,
         Str(<<"c">>), Null),
     Def(<<"b">>, "promptString", Str(<<"d">>), Str(<<"x">>), Undefined,
         Undefined, Undefined)}

\* the tables of at most n definitions
RECURSIVE Tables(_)
Tables(n) ==
    IF n = 0
    THEN {<<>>}
    ELSE LET shorter == Tables(n - 1)
         IN  shorter \cup {<<d>> \o T : d \in DefPool, T \in shorter}

\* what configurationService.getValue(section) may hold: nothing, a section
\* without inputs, a section with an inputs table
Sections ==
    {Undefined, Obj(<<>>)}
    \cup {Obj(<<Prop("inputs", Arr(T))>>) : T \in Tables(MaxDefs)}

\* the scopes: a folder of a non-empty workbench with any section; no
\* folder, or an empty workbench, with one section
Scopes ==
    {<<TRUE, "FOLDER", sec>> : sec \in Sections}
    \cup {<<f, w, Obj(<<Prop("inputs", Arr(<<>>))>>)>> :
             f \in BOOLEAN, w \in {"EMPTY", "FOLDER"}}

\* the alias maps: none, one naming command z for variable a, one holding
\* an empty entry for a
AliasMaps ==
    {Undefined, Obj(<<Prop(<<"a">>, Str(<<"z">>))>>),
     Obj(<<Prop(<<"a">>, Str(<<>>))>>)}

Init ==
    /\ \E scope \in Scopes :
        /\ folder = scope[1]
        /\ workbenchState = scope[2]
        /\ sectionValue = scope[3]
    /\ configuration \in Configs
    /\ variableToCommandMap \in AliasMaps
    /\ inputs = Undefined
    /\ variables = <<>>
    /\ pos = 1
    /\ variableValues = <<>>
    /\ pc = "start"
    /\ pending = {}
    /\ issued = <<>>
    /\ calls = <<>>
    /\ completed = <<>>
    /\ ret = NotReturned
    /\ fault = NoFault
    /\ OuterIdle

Next ==
    \/ Call
    \/ LoopExit
    \/ CaseInput
    \/ CaseCommand
    \/ InputCompletes
    \/ PickCompletes
    \/ CommandCompletes
    \/ CommandFails

Spec == Init /\ [][Next]_vars

-----------------------------------------------------------------------------
(* The call when every step that can run does run *)

InitLive ==
    /\ folder = TRUE
    /\ workbenchState = "FOLDER"
    /\ sectionValue \in {Obj(<<Prop("inputs", Arr(T))>>) : T \in Tables(MaxDefs)}
    /\ configuration \in {Str(s) : s \in StringsOf(Parts, MaxParts)}
    /\ variableToCommandMap = Undefined
    /\ inputs = Undefined
    /\ variables = <<>>
    /\ pos = 1
    /\ variableValues = <<>>
    /\ pc = "start"
    /\ pending = {}
    /\ issued = <<>>
    /\ calls = <<>>
    /\ completed = <<>>
    /\ ret = NotReturned
    /\ fault = NoFault
    /\ OuterIdle

\* the steps after the entry of the call
Continue ==
    \/ LoopExit
    \/ CaseInput
    \/ CaseCommand
    \/ InputCompletes
    \/ PickCompletes
    \/ CommandCompletes
    \/ CommandFails

\* The event loop runs every continuation that is ready, and the
\* capabilities complete every invocation.  The last conjunct is
\* WF_vars(Call) written out: Call is enabled exactly when pc = "start".
SpecLive ==
    /\ InitLive
    /\ [][Next]_vars
    /\ WF_vars(Continue)
    /\ ([]<>(pc # "start") \/ []<><<Call>>_vars)

-----------------------------------------------------------------------------
(* findVariables alone, over a wider set of trees *)

\* single tokens: those of the pattern, a line terminator, another kind
ScanTokens == {"${", "input", "command", ":", "}", "NL", "env"}

ScanParts == Parts \cup {<<tok>> : tok \in ScanTokens}

ScanTrees ==
    {Str(s) : s \in StringsOf(ScanParts, MaxParts + 1)}
    \cup Configs
    \cup {Arr(<<Str(p), Arr(<<Str(q), Null>>), Obj(<<Prop("k", Str(r))>>)>>) :
             p \in RefParts, q \in RefParts, r \in RefParts}

InitScan ==
    /\ configuration \in ScanTrees
    /\ folder = FALSE
    /\ workbenchState = "EMPTY"
    /\ sectionValue = Undefined
    /\ variableToCommandMap = Undefined
    /\ inputs = Undefined
    /\ variables = <<>>
    /\ pos = 1
    /\ variableValues = <<>>
    /\ pc = "scan"
    /\ pending = {}
    /\ issued = <<>>
    /\ calls = <<>>
    /\ completed = <<>>
    /\ ret = NotReturned
    /\ fault = NoFault
    /\ OuterIdle

\* const variables = []; this.findVariables(configuration, variables)
Scan ==
    /\ pc = "scan"
    /\ variables' = findVariables(configuration, <<>>)
    /\ pc' = "scanned"
    /\ UNCHANGED <<folder, workbenchState, sectionValue, configuration,
                   variableToCommandMap, inputs, pos, variableValues,
                   pending, issued, calls, completed, ret, fault>>
    /\ UNCHANGED outerVars

SpecScan == InitScan /\ [][Scan]_vars

-----------------------------------------------------------------------------
(* showUserInput over a wider set of input definitions *)

OptionTexts == {<<"x">>, <<"y">>, <<"z">>}

\* the sequences of at most n option texts
RECURSIVE OptionLists(_)
OptionLists(n) ==
    IF n = 0
    THEN {<<>>}
    ELSE LET shorter == OptionLists(n - 1)
         IN  shorter \cup {<<Str(o)>> \o L : o \in OptionTexts, L \in shorter}

\* definitions of input a: of every type, with and without the attributes
\* the type needs, and of no known type
InputDefs ==
    {Def(<<"a">>, "pickString", description, default, options, Undefined,
         Undefined) :
        description \in {Str(<<"d">>), Undefined},
        default \in {Undefined, Str(<<"x">>), Str(<<"w">>)},
        options \in {Arr(L) : L \in OptionLists(MaxOptions)}
                    \cup {Undefined, Str(<<"x">>),
                          Arr(<<Str(<<"x">>), Num(7)>>)}}
    \cup {Def(<<"a">>, "promptString", description, default, Undefined,
              Undefined, Undefined) :
             description \in {Str(<<"d">>), Str(<<>>), Undefined, Num(7)},
             default \in {Undefined, Str(<<"x">>)}}
    \cup {Def(<<"a">>, "command", Undefined, Undefined, Undefined, command,
              Null) :
             command \in {Str(<<"c">>), Undefined, Num(7)}}
    \cup {Def(<<"a">>, type, Str(<<"d">>), Undefined,
              Arr(<<Str(<<"x">>)>>), Str(<<"c">>), Undefined) :
             type \in {"other", ""}}

InitInput ==
    /\ folder = TRUE
    /\ workbenchState = "FOLDER"
    /\ sectionValue \in {Obj(<<Prop("inputs", Arr(<<d>>))>>) : d \in InputDefs}
    /\ configuration \in
           {Str(Ref("input", <<"a">>)),
            Str(Ref("command", <<"a">>) \o Ref("input", <<"a">>))}
    /\ variableToCommandMap = Undefined
    /\ inputs = Undefined
    /\ variables = <<>>
    /\ pos = 1
    /\ variableValues = <<>>
    /\ pc = "start"
    /\ pending = {}
    /\ issued = <<>>
    /\ calls = <<>>
    /\ completed = <<>>
    /\ ret = NotReturned
    /\ fault = NoFault
    /\ OuterIdle

SpecInput == InitInput /\ [][Next]_vars

-----------------------------------------------------------------------------
(* updateMapping alone, over mappings that share keys *)

MergeKeys == {<<"input", ":", "a">>, <<"command", ":", "a">>, <<"env", ":", "A">>}

MergeTexts == {<<>>, <<"0">>, <<"1">>}

\* the mappings from some of the keys to the texts
Mappings ==
    UNION {[keys -> MergeTexts] : keys \in SUBSET MergeKeys}

InitMerge ==
    /\ ret \in {RetUndefined} \cup {RetMapping(m) : m \in Mappings}
    /\ allVariableMapping \in Mappings
    /\ pc = "merge"
    /\ folder = FALSE
    /\ workbenchState = "EMPTY"
    /\ sectionValue = Undefined
    /\ configuration = Undefined
    /\ variableToCommandMap = Undefined
    /\ inputs = Undefined
    /\ variables = <<>>
    /\ pos = 1
    /\ variableValues = <<>>
    /\ pending = {}
    /\ issued = <<>>
    /\ calls = <<>>
    /\ completed = <<>>
    /\ fault = NoFault
    /\ entry = "none"
    /\ argConfig = Undefined
    /\ replaceConfig = Undefined
    /\ outerPc = "idle"
    /\ interactionRet = NotReturned
    /\ replaceRet = Undefined
    /\ merges = <<>>
    /\ substitutions = <<>>

\* this.updateMapping(inputOrCommandMapping, allVariableMapping)
Merge ==
    /\ pc = "merge"
    /\ merges' = Append(merges, Merged(ret, allVariableMapping))
    /\ allVariableMapping' = updateMapping(ret, allVariableMapping).full
    /\ pc' = "merged"
    /\ UNCHANGED <<folder, workbenchState, sectionValue, configuration,
                   variableToCommandMap, inputs, variables, pos,
                   variableValues, pending, issued, calls, completed, ret,
                   fault, entry, argConfig, replaceConfig, outerPc,
                   interactionRet, replaceRet, substitutions>>

SpecMerge == InitMerge /\ [][Merge]_vars

-----------------------------------------------------------------------------
(* The public methods, over trees that hold known variables too *)

OuterParts ==
    {Ref("env", <<"A">>), Ref("env", <<"B">>), Ref("input", <<"a">>),
     Ref("command", <<"a">>), <<"x">>}

OuterConfigs ==
    {Str(s) : s \in StringsOf(OuterParts, MaxParts)}
    \cup {Obj(<<Prop("k1", Str(p)), Prop("k2", Arr(<<Str(q), Str(r)>>))>>) :
             p \in OuterParts, q \in OuterParts, r \in OuterParts}
    \cup {Null, Num(7)}

\* definitions showUserInput refuses: no description, an unknown type
BadDefs ==
    {Def(<<"a">>, "promptString", Undefined, Undefined, Undefined,
         Undefined, Undefined),
     Def(<<"a">>, "other", Str(<<"d">>), Undefined, Undefined, Undefined,
         Undefined)}

OuterTables == Tables(MaxDefs) \cup {<<d>> : d \in BadDefs}

InitOuter ==
    /\ entry \in {"interaction", "replace"}
    /\ argConfig \in OuterConfigs
    /\ folder = TRUE
    /\ workbenchState = "FOLDER"
    /\ sectionValue \in {Obj(<<Prop("inputs", Arr(T))>>) : T \in OuterTables}
    /\ configuration = Undefined
    /\ variableToCommandMap = Undefined
    /\ inputs = Undefined
    /\ variables = <<>>
    /\ pos = 1
    /\ variableValues = <<>>
    /\ pc = "idle"
    /\ pending = {}
    /\ issued = <<>>
    /\ calls = <<>>
    /\ completed = <<>>
    /\ ret = NotReturned
    /\ fault = NoFault
    /\ replaceConfig = Undefined
    /\ allVariableMapping = <<>>
    /\ outerPc = "idle"
    /\ interactionRet = NotReturned
    /\ replaceRet = Undefined
    /\ merges = <<>>
    /\ substitutions = <<>>

NextOuter ==
    \/ InteractionEnter
    \/ ReplaceEnter
    \/ Next
    \/ InteractionThen
    \/ ReplaceThen

SpecOuter == InitOuter /\ [][NextOuter]_vars

-----------------------------------------------------------------------------
(* Properties *)

\* position of a reference in the scan list
IndexOf(variables_, variable) ==
    CHOOSE k \in 1..Len(variables_) : variables_[k] = variable

\* the invocations issued for references after `variable` in the scan list
IssuedAfter(variable) ==
    {k \in 1..Len(issued) :
        IndexOf(variables, issued[k].variable) > IndexOf(variables, variable)}

\* step k completed without a fault and its result is a string
ResolvedToString(k) ==
    /\ completed[k].fault = NoFault
    /\ isString(completed[k].result)

\* step k completed without a fault and its result is not a string
ResolvedToNonString(k) ==
    /\ completed[k].fault = NoFault
    /\ ~isString(completed[k].result)

\* C1: once a resolution step yields a non-string value (a cancelled prompt
\* or pick included), the call has returned absent, that step is the last
\* one completed, nothing is outstanding and no capability was invoked for
\* a reference later in the scan list.
C1_AbortOnNonString ==
    \A k \in 1..Len(completed) :
        ResolvedToNonString(k) =>
            /\ pc = "returned"
            /\ ret = RetUndefined
            /\ k = Len(completed)
            /\ pending = {}
            /\ IssuedAfter(completed[k].variable) = {}

\* C1 witness: of three scanned references the second one is cancelled
C1_SecondOfThreeCancelled ==
    /\ Len(variables) = 3
    /\ Len(completed) = 2
    /\ completed[2].variable = variables[2]
    /\ completed[2].cap \in {"input", "pick"}
    /\ completed[2].raw = Undefined
    /\ pc = "returned"

\* C2: the value returned is absent, or a mapping whose keys are exactly
\* the scanned references, each mapped to the string its step resolved to.
C2_NoPartialMapping ==
    pc = "returned" =>
        \/ ret = RetUndefined
        \/ /\ ret.t = "mapping"
           /\ DOMAIN ret.m = {variables[k] : k \in 1..Len(variables)}
           /\ \A variable \in DOMAIN ret.m :
                 \E k \in 1..Len(completed) :
                     /\ completed[k].variable = variable
                     /\ ResolvedToString(k)
                     /\ completed[k].result.v = ret.m[variable]

\* C2 witness: a mapping of three references is returned
C2_FullMappingReturned ==
    /\ pc = "returned"
    /\ ret.t = "mapping"
    /\ Cardinality(DOMAIN ret.m) = 3

\* every match of the pattern in one string, left to right, duplicates kept
RECURSIVE MatchesFrom(_, _)
MatchesFrom(s, lastIndex) ==
    LET matches == PatternExec(s, lastIndex)
    IN  IF matches.index = 0
        THEN <<>>
        ELSE <<SubSeq(s, matches.index + 1, matches.last - 1)>>
             \o MatchesFrom(s, matches.last + 1)

\* every occurrence of a reference in a tree, in traversal order: a string
\* left to right, sequence elements in index order, mapping values in key
\* order
RECURSIVE Occurrences(_)
RECURSIVE OccurrencesEach(_, _)
Occurrences(tree) ==
    IF tree.t = "string"
    THEN MatchesFrom(tree.v, 1)
    ELSE IF tree.t = "array"
    THEN OccurrencesEach(tree.v, 1)
    ELSE IF tree.t = "object"
    THEN OccurrencesEach([k \in 1..Len(tree.v) |-> tree.v[k].value], 1)
    ELSE <<>>

OccurrencesEach(trees, k) ==
    IF k > Len(trees)
    THEN <<>>
    ELSE Occurrences(trees[k]) \o OccurrencesEach(trees, k + 1)

\* the positions of a sequence holding an entry for the first time
FirstPositions(seq) ==
    {k \in 1..Len(seq) : \A j \in 1..(k - 1) : seq[j] # seq[k]}

\* seq is the first occurrences of all, in the order of all
IsFirstOccurrencesOf(seq, all) ==
    /\ Len(seq) = Cardinality(FirstPositions(all))
    /\ \A k \in 1..Len(seq) :
          \E at \in FirstPositions(all) :
              /\ all[at] = seq[k]
              /\ Cardinality({j \in FirstPositions(all) : j < at}) = k - 1

\* C3: the scan list has no duplicates and holds the references of the
\* tree in the order of their first occurrence under the traversal.
C3_ScanDedupedInFirstOccurrenceOrder ==
    pc = "scanned" =>
        /\ \A j \in 1..Len(variables) : \A k \in 1..Len(variables) :
              variables[j] = variables[k] => j = k
        /\ IsFirstOccurrencesOf(variables, Occurrences(configuration))

\* C3 witness: a nested tree where a reference occurs again after another
\* one and is listed once, at its earlier position
C3_DuplicateDropped ==
    /\ pc = "scanned"
    /\ configuration.t \in {"array", "object"}
    /\ Len(variables) = 2
    /\ Len(Occurrences(configuration)) = 3
    /\ Occurrences(configuration)[3] = variables[1]

\* C4: the invocations are issued in scan-list order, and the one for the
\* reference at position i is issued only when an invocation for every
\* reference before i has completed with a string result.
C4_InvocationsInScanOrder ==
    \A k \in 1..Len(issued) :
        /\ issued[k].variable = variables[k]
        /\ \A j \in 1..(k - 1) :
              \E c \in 1..Len(completed) :
                  /\ completed[c].variable = variables[j]
                  /\ ResolvedToString(c)

\* C4 witness: the third invocation has just been issued, after a prompt
\* and a command
C4_ThirdInvocationIssued ==
    /\ Len(issued) = 3
    /\ Len(completed) = 2
    /\ issued[1].cap # issued[2].cap
    /\ pc = "await"

\* C5: at most one capability invocation of the call is outstanding.
C5_AtMostOneOutstanding ==
    Cardinality(pending) <= 1

\* C5 witness: an invocation is outstanding after an earlier one completed
C5_SecondOutstanding ==
    /\ Cardinality(pending) = 1
    /\ Len(completed) >= 1
    /\ Len(variables) >= 2

\* C6: no input name is passed to showUserInput twice and no command name
\* is executed as a command variable twice.
C6_NeverAskedTwice ==
    \A j \in 1..Len(calls) : \A k \in 1..Len(calls) :
        (calls[j].type = calls[k].type /\ calls[j].name = calls[k].name)
            => j = k

\* the text of a reference after its first colon
AfterFirstColon(variable) ==
    LET colons == {k \in 1..Len(variable) : variable[k] = ":"}
        first == CHOOSE k \in colons : \A j \in colons : k <= j
    IN  SubSeq(variable, first + 1, Len(variable))

\* C7: the name handed to the resolver is the entire text after the first
\* colon of the reference.
C7_NameIsTextAfterFirstColon ==
    \A k \in 1..Len(calls) :
        calls[k].name = AfterFirstColon(calls[k].variable)

\* C8: a prompt the user answers resolves to exactly the text entered, and
\* a prompt resolves to absent only when the user cancels it.
C8_PromptReturnsTextEntered ==
    \A k \in 1..Len(completed) :
        completed[k].cap = "input" =>
            /\ isString(completed[k].raw) =>
                  completed[k].result = completed[k].raw
            /\ ~isString(completed[k].result) =>
                  completed[k].raw = Undefined

\* no declared input definition has this id (there may be no table at all)
NotDeclared(name) ==
    \/ ~isArray(inputs)
    \/ \A k \in 1..Len(inputs.v) : inputs.v[k].id # name

\* C9: resolving an input variable that no declared definition matches
\* fails with UndefinedVariable and invokes no capability.
C9_UndeclaredInputIsUndefinedVariable ==
    \A k \in 1..Len(calls) :
        (calls[k].type = "input" /\ NotDeclared(calls[k].name)) =>
            /\ pc = "thrown"
            /\ fault.name = "UndefinedVariable"
            /\ \A j \in 1..Len(issued) :
                  issued[j].variable # calls[k].variable

\* C10: a command result that is neither a string nor absent/null raises
\* InvalidResultType; an absent/null one raises no fault and the call
\* returns absent; a string one (the empty string included) is stored as
\* the value of the variable.
C10_CommandResultTyping ==
    \A k \in 1..Len(completed) :
        LET c == completed[k]
        IN  (c.cap = "executeCommand" /\ c.raw.t # "error") =>
                /\ (~isString(c.raw) /\ ~isUndefinedOrNull(c.raw)) =>
                      /\ pc = "thrown"
                      /\ fault.name = "InvalidResultType"
                      /\ k = Len(completed)
                /\ isUndefinedOrNull(c.raw) =>
                      /\ pc = "returned"
                      /\ ret = RetUndefined
                      /\ fault = NoFault
                      /\ k = Len(completed)
                /\ isString(c.raw) =>
                      /\ c.variable \in DOMAIN variableValues
                      /\ variableValues[c.variable] = c.raw.v
                      /\ fault.name # "InvalidResultType" \/ k < Len(completed)

\* C10 witness: an input-backed command returned the empty string, which
\* was stored, and then a command variable returned a number
C10_EmptyStoredThenNumberFaults ==
    /\ Len(completed) = 2
    /\ completed[1].cap = "executeCommand"
    /\ completed[1].via = "input"
    /\ completed[1].raw = Str(<<>>)
    /\ variableValues[completed[1].variable] = <<>>
    /\ completed[2].via = "command"
    /\ completed[2].raw = Num(7)
    /\ fault.name = "InvalidResultType"

\* the alias map exists and holds a non-empty entry for name
HasAlias(name) ==
    /\ variableToCommandMap.t = "object"
    /\ \E k \in 1..Len(variableToCommandMap.v) :
          /\ variableToCommandMap.v[k].key = name
          /\ variableToCommandMap.v[k].value.v # <<>>

\* the entry of the alias map for name
AliasOf(name) ==
    LET k == CHOOSE j \in 1..Len(variableToCommandMap.v) :
                 variableToCommandMap.v[j].key = name
    IN  variableToCommandMap.v[k].value

\* C11: for a command variable handed to the resolver with name n, the
\* command id executed is the alias of n when the alias map holds a
\* non-empty entry for n and n itself otherwise; the command is invoked
\* once for the variable, with the scanned config tree as its argument.
C11_CommandIdIsAliasOrName ==
    \A k \in 1..Len(calls) :
        calls[k].type = "command" =>
            LET n == calls[k].name
                mine == {j \in 1..Len(issued) :
                            issued[j].variable = calls[k].variable}
            IN  /\ Cardinality(mine) = 1
                /\ \A j \in mine :
                      /\ issued[j].cap = "executeCommand"
                      /\ issued[j].a = IF HasAlias(n) THEN AliasOf(n)
                                       ELSE Str(n)
                      /\ issued[j].b = configuration

\* C11 witness: command variable a was executed as its alias z, with the
\* config tree as argument
C11_AliasExecuted ==
    /\ Len(issued) >= 1
    /\ issued[1].via = "command"
    /\ issued[1].variable = <<"command", ":", "a">>
    /\ issued[1].a = Str(<<"z">>)
    /\ issued[1].b = configuration
    /\ Len(completed) >= 1

\* the definition showUserInput takes for name: the last one declared
Declared(name) ==
    LET at == {k \in 1..Len(inputs.v) : inputs.v[k].id = name}
    IN  inputs.v[CHOOSE k \in at : \A j \in at : j <= k]

\* the labels of a choice list
Labels(picks) == [k \in 1..Len(picks) |-> Get(picks[k], "label")]

\* the entry is annotated as the default choice
Annotated(pick) == Get(pick, "description") # Undefined

\* C12 as stated: with default among options, the list is a permutation of
\* options, its first entry is the default and the only one annotated, the
\* others keep their order; otherwise the list is options, unannotated.
C12_DefaultFirstOnlyAnnotated ==
    \A k \in 1..Len(issued) :
        issued[k].cap = "pick" =>
            LET info == Declared(<<"a">>)
                picks == issued[k].a.v
                others == SelectSeq(info.options.v,
                                    LAMBDA o : o # info.default)
            IN  IF \E j \in 1..Len(info.options.v) :
                       info.options.v[j] = info.default
                THEN /\ Len(picks) = Len(info.options.v)
                     /\ Labels(picks)[1] = info.default
                     /\ \A j \in 1..Len(picks) : Annotated(picks[j]) <=> j = 1
                     /\ SubSeq(Labels(picks), 2, Len(picks)) = others
                ELSE /\ Labels(picks) = info.options.v
                     /\ \A j \in 1..Len(picks) : ~Annotated(picks[j])

\* C12 amended: the list is a permutation of options in which the entries
\* equal to default come first and are exactly the annotated ones, and all
\* other options follow in their original relative order; with default
\* not among options the list is options, unannotated.
C12_DefaultsFirstAnnotated ==
    \A k \in 1..Len(issued) :
        issued[k].cap = "pick" =>
            LET info == Declared(<<"a">>)
                picks == issued[k].a.v
                others == SelectSeq(info.options.v,
                                    LAMBDA o : o # info.default)
                n == Len(info.options.v) - Len(others)
            IN  /\ Len(picks) = Len(info.options.v)
                /\ \A j \in 1..Len(picks) :
                      /\ Annotated(picks[j]) <=> j <= n
                      /\ Labels(picks)[j] = info.default <=> j <= n
                /\ SubSeq(Labels(picks), n + 1, Len(picks)) = others

\* C12 witness: the default is the last of three distinct options and is
\* presented first
C12_DefaultMovedToFront ==
    /\ Len(issued) >= 1
    /\ issued[Len(issued)].cap = "pick"
    /\ Declared(<<"a">>).options.v = <<Str(<<"y">>), Str(<<"z">>), Str(<<"x">>)>>
    /\ Labels(issued[Len(issued)].a.v)
           = <<Str(<<"x">>), Str(<<"y">>), Str(<<"z">>)>>

\* x is a sequence of strings
IsStringSeq(x) == x.t = "array" /\ \A k \in 1..Len(x.v) : x.v[k].t = "string"

\* the definition lacks an attribute its type requires
LacksAttribute(info) ==
    \/ info.type = "promptString" /\ info.description.t # "string"
    \/ /\ info.type = "pickString"
       /\ info.description.t # "string" \/ ~IsStringSeq(info.options)
    \/ info.type = "command" /\ info.command.t # "string"

\* C13: an input definition lacking a required attribute of its type fails
\* with MissingAttribute, one of no recognized type with UnknownInputType,
\* and no capability is invoked for the variable.
C13_BadDefinitionFaultsBeforeInvocation ==
    \A k \in 1..Len(calls) :
        (calls[k].type = "input" /\ ~NotDeclared(calls[k].name)) =>
            LET info == Declared(calls[k].name)
                known == info.type \in {"promptString", "pickString", "command"}
            IN  /\ LacksAttribute(info) =>
                      /\ pc = "thrown"
                      /\ fault.name = "MissingAttribute"
                /\ ~known =>
                      /\ pc = "thrown"
                      /\ fault.name = "UnknownInputType"
                /\ (LacksAttribute(info) \/ ~known) =>
                      \A j \in 1..Len(issued) :
                          issued[j].variable # calls[k].variable

\* C13 witness: after a command variable resolved, a pickString definition
\* whose options hold a number failed with MissingAttribute
C13_OptionsNotStrings ==
    /\ Len(calls) = 2
    /\ Len(issued) = 1
    /\ Declared(<<"a">>).type = "pickString"
    /\ Declared(<<"a">>).options = Arr(<<Str(<<"x">>), Num(7)>>)
    /\ fault = Fault("MissingAttribute", "options")

\* C14: updateMapping with an undefined newMapping returns false and
\* leaves cumulative as it was: no key added, removed or overwritten.
C14_MergeAbsentChangesNothing ==
    \A k \in 1..Len(merges) :
        merges[k].newMapping = RetUndefined =>
            /\ merges[k].ok = FALSE
            /\ DOMAIN merges[k].after = DOMAIN merges[k].before
            /\ \A key \in DOMAIN merges[k].before :
                  merges[k].after[key] = merges[k].before[key]
            /\ k = Len(merges) => allVariableMapping = merges[k].before

\* C14 witness: an undefined mapping was merged into a cumulative mapping
\* of two entries
C14_AbsentMergedIntoTwoEntries ==
    /\ Len(merges) = 1
    /\ merges[1].newMapping = RetUndefined
    /\ Cardinality(DOMAIN merges[1].before) = 2
    /\ pc = "merged"

\* C15: updateMapping with a newMapping, the empty one included, returns
\* true; afterwards cumulative holds newMapping's value for every key of
\* newMapping, its previous value for every other key it had, and no other
\* key.
C15_MergeCopiesAndOverwrites ==
    \A k \in 1..Len(merges) :
        merges[k].newMapping.t = "mapping" =>
            LET new == merges[k].newMapping.m
                old == merges[k].before
                now == merges[k].after
            IN  /\ merges[k].ok = TRUE
                /\ DOMAIN now = (DOMAIN old) \cup (DOMAIN new)
                /\ \A key \in DOMAIN new : now[key] = new[key]
                /\ \A key \in (DOMAIN old) \ (DOMAIN new) : now[key] = old[key]
                /\ k = Len(merges) => allVariableMapping = now

\* C15 witness: a mapping overwrote one entry of cumulative and left
\* another one alone
C15_OneOverwrittenOneKept ==
    /\ Len(merges) = 1
    /\ merges[1].newMapping.t = "mapping"
    /\ \E key \in DOMAIN merges[1].before :
          /\ key \in DOMAIN merges[1].newMapping.m
          /\ merges[1].newMapping.m[key] # merges[1].before[key]
    /\ \E key \in DOMAIN merges[1].before :
          key \notin DOMAIN merges[1].newMapping.m

\* the string the capability handed back in a completed step: the text
\* typed, the label of the item picked, the value the command returned
Produced(step) ==
    IF step.cap = "pick" THEN Get(step.raw, "label") ELSE step.raw

\* C16: on full success the returned mapping has exactly the scanned
\* references as keys, and the value under each is the string produced by
\* the one step issued for that reference, never that of another reference.
C16_EachReferenceGetsItsOwnResult ==
    (pc = "returned" /\ ret.t = "mapping") =>
        /\ DOMAIN ret.m = {variables[k] : k \in 1..Len(variables)}
        /\ Len(completed) = Len(variables)
        /\ \A k \in 1..Len(variables) :
              /\ issued[k].variable = variables[k]
              /\ completed[k].variable = variables[k]
              /\ isString(Produced(completed[k]))
              /\ ret.m[variables[k]] = Produced(completed[k]).v

\* C16 witness: two references resolved to different strings
C16_TwoReferencesTwoValues ==
    /\ pc = "returned"
    /\ ret.t = "mapping"
    /\ Len(variables) = 2
    /\ ret.m[variables[1]] # ret.m[variables[2]]

\* a resolution step has raised a fault
Faulted ==
    \/ fault # NoFault
    \/ \E k \in 1..Len(completed) : completed[k].fault # NoFault

FaultNames ==
    {"UndefinedVariable", "MissingAttribute", "UnknownInputType",
     "InvalidResultType", "ExecutionError"}

\* C17: once a resolution step has raised a fault the call has ended with
\* that fault: the faulting variable is the last one dispatched, each
\* variable up to it was dispatched once and had at most one invocation,
\* nothing is outstanding, no mapping was returned, and updateMapping was
\* not applied, so that the cumulative mapping holds phase-1 entries only.
C17_FaultEndsTheCall ==
    Faulted =>
        /\ pc = "thrown"
        /\ fault.name \in FaultNames
        /\ \A k \in 1..Len(completed) :
              completed[k].fault # NoFault =>
                  k = Len(completed) /\ completed[k].fault = fault
        /\ pending = {}
        /\ Len(calls) = pos
        /\ \A k \in 1..Len(calls) : calls[k].variable = variables[k]
        /\ Len(issued) <= pos
        /\ \A k \in 1..Len(issued) : issued[k].variable = variables[k]
        /\ ret = NotReturned
        /\ interactionRet = NotReturned
        /\ outerPc = "interaction"
        /\ merges = <<>>
        /\ substitutions = <<>>
        /\ DOMAIN allVariableMapping \subseteq DOMAIN Environment

\* C17 witness: the first of two variables faulted after its command
\* failed, with a phase-1 entry in the cumulative mapping
C17_FirstOfTwoFaulted ==
    /\ pc = "thrown"
    /\ fault.name = "ExecutionError"
    /\ Len(variables) = 2
    /\ pos = 1
    /\ Len(issued) = 1
    /\ DOMAIN allVariableMapping # {}

\* C20: resolveWithInteractionReplace substitutes at most once, and only
\* after resolveWithInputAndCommands returned a mapping.  When it is done:
\* after an undefined mapping it returned null and substituted nothing;
\* with an empty cumulative mapping it returned the phase-1 config and
\* substituted nothing; otherwise it returned the phase-1 config substituted
\* with the known variables overlaid by the interactive ones.
C20_SubstitutionOnlyAfterSuccess ==
    /\ substitutions # <<>> =>
          /\ entry = "replace"
          /\ outerPc = "done"
          /\ pc = "returned"
          /\ ret.t = "mapping"
          /\ pending = {}
          /\ Len(substitutions) = 1
    /\ (entry = "replace" /\ outerPc = "done") =>
          LET phase1 == resolveAny(argConfig)
              known == resolveAnyMap(phase1).resolvedVariables
              merged == [key \in (DOMAIN known) \cup (DOMAIN ret.m) |->
                            IF key \in DOMAIN ret.m
                            THEN ret.m[key] ELSE known[key]]
          IN  IF ret.t = "undefined"
              THEN replaceRet = Null /\ substitutions = <<>>
              ELSE IF DOMAIN merged = {}
              THEN replaceRet = phase1 /\ substitutions = <<>>
              ELSE /\ substitutions =
                          <<[config |-> phase1, mapping |-> merged]>>
                   /\ replaceRet = ApplyMapping(phase1, merged)

\* C20 witness: the second variable was cancelled after the first had been
\* collected, and resolveWithInteractionReplace returned null
C20_NullAfterPartialMapping ==
    /\ entry = "replace"
    /\ outerPc = "done"
    /\ ret = RetUndefined
    /\ DOMAIN variableValues # {}
    /\ replaceRet = Null

\* the strings of a tree, in the order of the traversal
RECURSIVE StringsIn(_)
StringsIn(tree) ==
    IF tree.t = "string" THEN {tree.v}
    ELSE IF tree.t = "array"
    THEN UNION {StringsIn(tree.v[k]) : k \in 1..Len(tree.v)}
    ELSE IF tree.t = "object"
    THEN UNION {StringsIn(tree.v[k].value) : k \in 1..Len(tree.v)}
    ELSE {}

\* no string of the tree holds ${input:...} or ${command:...}
ReferenceFree(tree) ==
    \A s \in StringsIn(tree) :
        \A from \in 1..Len(s), to \in 1..Len(s) : ~PatternMatches(s, from, to)

\* C18 as stated: a call on a tree without references ends with an empty
\* mapping and without any invocation.
C18_ReferenceFreeGivesEmptyMapping ==
    (ReferenceFree(configuration) /\ pc \notin {"start", "loop"}) =>
        /\ pc = "returned"
        /\ ret = RetMapping(<<>>)
        /\ variables = <<>>
        /\ issued = <<>>
        /\ calls = <<>>

\* C18 amended: a call on a tree without references never invokes a
\* capability and never faults; it ends with an empty mapping when the tree
\* is truthy, and with undefined, without scanning, when the tree is falsy
\* (undefined, null, the empty string, 0).
C18_ReferenceFreeGivesEmptyMappingIfTruthy ==
    ReferenceFree(configuration) =>
        /\ variables = <<>>
        /\ issued = <<>>
        /\ calls = <<>>
        /\ pc \in {"start", "loop", "returned"}
        /\ pc = "returned" =>
              ret = IF Truthy(configuration)
                    THEN RetMapping(<<>>) ELSE RetUndefined

\* C18 witness: the call on the empty string returned undefined and left
\* the scan list unset
C18_EmptyStringReturnsUndefined ==
    /\ configuration = Str(<<>>)
    /\ pc = "returned"
    /\ ret = RetUndefined
    /\ issued = <<>>

\* C19: when every invocation completes, the call ends, with a mapping,
\* with undefined or with a fault, and it never issues more than one
\* invocation for a scanned reference.
C19_CallCompletes ==
    /\ <>(pc \in {"returned", "thrown"})
    /\ [](/\ Len(issued) <= Len(variables)
          /\ \A j \in 1..Len(issued), k \in 1..Len(issued) :
                issued[j].variable = issued[k].variable => j = k
          /\ \A k \in 1..Len(issued) : ~NotIn(variables, issued[k].variable)
          /\ pc = "returned" => ret # NotReturned
          /\ pc = "thrown" => fault # NoFault)

\* C19 witness: the call ended after one invocation for each of two
\* references
C19_EndedAfterTwoInvocations ==
    /\ pc = "returned"
    /\ ret.t = "mapping"
    /\ Len(variables) = 2
    /\ Len(issued) = 2
    /\ pending = {}

====
